---- MODULE Spec2Model ----
(***************************************************************************)
(* Model of EngineImpl (src/src/engine/engine.cpp): the universe / scene   *)
(* lifecycle, the per-frame update with its two timing modes, and the      *)
(* serialization codec, and the creation and teardown of the engine.       *)
(*                                                                         *)
(* Objects outside engine.cpp (plugins, scenes, plugin manager, input      *)
(* system, file system, timers) are seen through the calls the engine      *)
(* makes on them: `calls` holds, in order, every call made by the most     *)
(* recent step, and `last` names that step (an engine operation, or the    *)
(* clock advancing), its arguments and its return value.                   *)
(*                                                                         *)
(* float values are modelled as exact rationals <<n, d>> in lowest terms;  *)
(* <<1, 0>> is +inf and <<0, 0>> is NaN, the IEEE results of x/0 and 0/0.  *)
(***************************************************************************)
EXTENDS Integers, Sequences, FiniteSets, TLC

VARIABLES
    plugins,            \* m_plugin_manager->getPlugins(): plugin ids in registration order
    m_universe,         \* Universe* (NULL or the object)
    m_hierarchy,        \* Hierarchy* (NULL or the object)
    m_scenes,           \* Array<IScene*>: records [id, plugin]
    m_fps_frame,        \* int m_fps_frame
    m_fps,              \* float m_fps
    m_last_time_delta,  \* float m_last_time_delta
    m_timer,            \* time elapsed on the frame timer since its last tick()
    m_fps_timer,        \* time elapsed on the fps-sample timer since its last tick()
    created,            \* plugin side: scenes returned by createScene and not yet destroyed
    calls,              \* calls made by the most recent step, in order
    last,               \* the most recent step, its arguments and its result
    engine,             \* the EngineImpl object: "none", "alive" or "destroyed"
    m_disk_file_device, \* FS::DiskFileDevice* (NULL when the file system is injected)
    data,               \* the state of each component that reads and writes the stream
    out,                \* the bytes the most recent step wrote to its OutputBlob
    blob,               \* the caller's copy of a stream serialize() wrote
    snap                \* the components and registry when `blob` was written

vars == <<plugins, m_universe, m_hierarchy, m_scenes, m_fps_frame, m_fps,
          m_last_time_delta, m_timer, m_fps_timer, created, calls, last,
          engine, m_disk_file_device, data, out, blob, snap>>

----
\* Bounds of the model.

\* Most plugins the plugin manager holds (the renderer included).
MaxPlugins == 3
\* Most clock quanta a timer accumulates between two tick() calls.
MaxElapsed == 2
\* Plugins registered while streams are saved and loaded (SpecCodec only).
MaxSavedPlugins == 2

----
\* Program constants.

SERIALIZED_ENGINE_MAGIC == 1598833998
BASE == 0
LATEST == 1
FpsSamplePeriod == 30
NULL == 0

----
\* float arithmetic, on rationals <<numerator, denominator>> in lowest terms.

RECURSIVE GCD(_, _)
GCD(a, b) == IF b = 0 THEN a ELSE GCD(b, a % b)

Abs(x) == IF x < 0 THEN -x ELSE x

\* n/d in lowest terms with a positive denominator; x/0 is +inf, -inf or NaN.
Rat(n, d) ==
    IF d = 0 THEN <<(IF n > 0 THEN 1 ELSE IF n < 0 THEN -1 ELSE 0), 0>>
    ELSE LET g == GCD(Abs(n), Abs(d))
             s == IF d < 0 THEN -1 ELSE 1
         IN  <<(s * n) \div g, (s * d) \div g>>

Zero == <<0, 1>>
One == <<1, 1>>
Inf == <<1, 0>>

RMul(a, b) == Rat(a[1] * b[1], a[2] * b[2])
RDiv(a, b) == Rat(a[1] * b[2], a[2] * b[1])
RIsZero(a) == a[1] = 0 /\ a[2] # 0
RGeqZero(a) == a[1] >= 0 /\ ~(a[1] = 0 /\ a[2] = 0)

----
\* The record of one call the engine makes on a collaborator:
\* function, kind of receiver, receiver id, object argument, float argument.
Call(fn, on, id, arg, dt) == [fn |-> fn, on |-> on, id |-> id, arg |-> arg, dt |-> dt]

\* The record of the most recent engine operation.
NoHeader == <<0, 0, 0>>
Op(op, run, mult, forced, hdr, ret) ==
    [op |-> op, run |-> run, mult |-> mult, forced |-> forced, hdr |-> hdr, ret |-> ret]

\* Timer::tick(): returns the time elapsed since the previous tick, in clock
\* quanta, and resets the baseline.
TimerTick(elapsed) == [ret |-> Rat(elapsed, 1), timer |-> 0]

\* The values an uninitialized float may hold: whatever the bytes of the
\* allocation spell.  One value stands for each kind of float the operators
\* above tell apart: zero, a positive and a negative number, a positive
\* number below one, +inf, -inf and NaN.
Indeterminate ==
    {Zero, Rat(7, 1), Rat(-3, 1), Rat(1, 1000000), Inf, Rat(-1, 0), Rat(0, 0)}

----
\* The components that read and write the stream.  What a component holds is
\* theirs, not the engine's: it is one byte, different for every component and
\* for every generation of the game's state (generation 0: as constructed).
Kind == [paths |-> 1, universe |-> 2, hierarchy |-> 3, renderer |-> 4,
         pluginManager |-> 5, scene |-> 5]

Content(kind, gen) == 16 * gen + kind
SceneContent(scene, gen) == Content(Kind.scene + scene.plugin, gen)

\* The contents at generation gen of the components that exist with the
\* registry `scenes` (universe and hierarchy exist when has_universe).
Contents(has_universe, scenes, gen) ==
    [paths |-> Content(Kind.paths, gen),
     universe |-> IF has_universe THEN Content(Kind.universe, gen) ELSE 0,
     hierarchy |-> IF has_universe THEN Content(Kind.hierarchy, gen) ELSE 0,
     renderer |-> Content(Kind.renderer, gen),
     pluginManager |-> Content(Kind.pluginManager, gen),
     scenes |-> [i \in 1..Len(scenes) |-> SceneContent(scenes[i], gen)]]

\* A universe, a hierarchy and scenes as constructed, beside the components
\* that outlive universes.
FreshUniverse(d, scenes) ==
    [d EXCEPT !.universe = Content(Kind.universe, 0),
              !.hierarchy = Content(Kind.hierarchy, 0),
              !.scenes = [i \in 1..Len(scenes) |-> SceneContent(scenes[i], 0)]]

\* The universe, the hierarchy and the scenes are gone.
NoUniverse(d) == [d EXCEPT !.universe = 0, !.hierarchy = 0, !.scenes = <<>>]

NoSnapshot == [data |-> Contents(FALSE, <<>>, 0), scenes |-> <<>>, crc |-> 0]

\* A step that writes no stream and leaves the engine object, the saved
\* stream and its snapshot alone.
Quiet ==
    /\ out' = <<>>
    /\ UNCHANGED <<engine, m_disk_file_device, blob, snap>>

TheDiskDevice == 1

----
\* EngineImpl::EngineImpl followed by a successful EngineImpl::create():
\* the plugin manager holds the renderer only, both timers are started.
m_renderer == 1

Init ==
    /\ plugins = <<m_renderer>>
    /\ m_universe = NULL
    /\ m_hierarchy = NULL
    /\ m_scenes = <<>>
    /\ m_fps_frame = 0
    /\ m_fps = Zero
    /\ m_last_time_delta \in Indeterminate
    /\ m_timer = 0
    /\ m_fps_timer = 0
    /\ created = <<>>
    /\ calls = <<>>
    /\ last = Op("create", FALSE, Zero, Zero, NoHeader, 1)
    /\ engine = "alive"
    /\ m_disk_file_device = TheDiskDevice
    /\ data = Contents(FALSE, <<>>, 0)
    /\ out = <<>>
    /\ blob = <<>>
    /\ snap = NoSnapshot

\* The wall clock advances by one quantum: both timers see it.
Tick ==
    /\ m_timer < MaxElapsed
    /\ m_fps_timer < MaxElapsed
    /\ m_timer' = m_timer + 1
    /\ m_fps_timer' = m_fps_timer + 1
    /\ calls' = <<>>
    /\ last' = Op("tick", FALSE, Zero, Zero, NoHeader, 0)
    /\ Quiet
    /\ UNCHANGED <<plugins, m_universe, m_hierarchy, m_scenes, m_fps_frame, m_fps,
                   m_last_time_delta, created, data>>

----
\* EngineImpl::createUniverse.  makes[i] tells whether createScene of the i-th
\* plugin returns a scene (TRUE) or nullptr (FALSE).

TheUniverse == 1
TheHierarchy == 1

\* Mutant of CreateScenes: a scene is put in front of the registry.
RECURSIVE CreateScenesPushFront(_, _, _, _)
CreateScenesPushFront(ps, makes, i, acc) ==
    IF i > Len(ps) THEN acc
    ELSE LET plugin == ps[i]
             scene == IF makes[i]
                        THEN [id |-> Len(acc.made) + 1, plugin |-> plugin]
                        ELSE [id |-> NULL, plugin |-> plugin]
             call == Call("createScene", "plugin", plugin, scene.id, Zero)
         IN  CreateScenesPushFront(ps, makes, i + 1,
                 [scenes |-> IF scene.id # NULL THEN <<scene>> \o acc.scenes
                                                ELSE acc.scenes,
                  calls |-> Append(acc.calls, call),
                  made |-> IF scene.id # NULL THEN Append(acc.made, scene)
                                              ELSE acc.made])

\* The loop over the plugins, from plugin i on: acc.scenes is m_scenes so far,
\* acc.calls the createScene calls so far (arg: the scene returned, NULL if none),
\* acc.made the scenes the plugins have handed out.
RECURSIVE CreateScenes(_, _, _, _)
CreateScenes(ps, makes, i, acc) ==
    IF i > Len(ps) THEN acc
    ELSE LET plugin == ps[i]
             scene == IF makes[i]
                        THEN [id |-> Len(acc.made) + 1, plugin |-> plugin]
                        ELSE [id |-> NULL, plugin |-> plugin]
             call == Call("createScene", "plugin", plugin, scene.id, Zero)
         IN  CreateScenes(ps, makes, i + 1,
                 [scenes |-> IF scene.id # NULL THEN Append(acc.scenes, scene)
                                                ELSE acc.scenes,
                  calls |-> Append(acc.calls, call),
                  made |-> IF scene.id # NULL THEN Append(acc.made, scene)
                                              ELSE acc.made])

CreateUniverse(makes) ==
    /\ m_universe = NULL
    /\ LET r == CreateScenes(plugins, makes, 1,
                    [scenes |-> m_scenes, calls |-> <<>>, made |-> created])
       IN  /\ m_universe' = TheUniverse
           /\ m_hierarchy' = TheHierarchy
           /\ m_scenes' = r.scenes
           /\ created' = r.made
           /\ calls' = <<Call("newObject", "universe", TheUniverse, NULL, Zero),
                         Call("create", "hierarchy", TheHierarchy, TheUniverse, Zero)>>
                       \o r.calls
           /\ last' = Op("createUniverse", FALSE, Zero, Zero, NoHeader, TheUniverse)
           /\ data' = FreshUniverse(data, r.scenes)
    /\ Quiet
    /\ UNCHANGED <<plugins, m_fps_frame, m_fps, m_last_time_delta, m_timer, m_fps_timer>>

----
\* EngineImpl::destroyUniverse.

\* Mutant of DestroyScenes: the loop runs upwards, scenes[1] first.
RECURSIVE DestroyScenesForward(_, _)
DestroyScenesForward(scenes, i) ==
    IF i < 1 THEN <<>>
    ELSE DestroyScenesForward(scenes, i - 1)
         \o <<Call("destroyScene", "plugin", scenes[i].plugin, scenes[i].id, Zero)>>

\* The loop from index i down to 0: one destroyScene per scene, on the plugin
\* the scene names as its own.
RECURSIVE DestroyScenes(_, _)
DestroyScenes(scenes, i) ==
    IF i < 1 THEN <<>>
    ELSE <<Call("destroyScene", "plugin", scenes[i].plugin, scenes[i].id, Zero)>>
         \o DestroyScenes(scenes, i - 1)

\* IPlugin::destroyScene as the plugins see it: the scene leaves the set of
\* scenes its plugin has handed out.
RECURSIVE Released(_, _)
Released(made, cs) ==
    IF cs = <<>> THEN made
    ELSE Released(SelectSeq(made, LAMBDA s: ~(s.id = Head(cs).arg /\ s.plugin = Head(cs).id)),
                  Tail(cs))

\* Mutant of DestroyUniverse: m_scenes.clear() is missing.
DestroyUniverseNoClear ==
    /\ m_universe # NULL
    /\ LET ds == DestroyScenes(m_scenes, Len(m_scenes))
       IN  /\ calls' = ds \o <<Call("destroy", "hierarchy", m_hierarchy, NULL, Zero),
                               Call("deleteObject", "universe", m_universe, NULL, Zero)>>
           /\ created' = Released(created, ds)
    /\ m_scenes' = m_scenes
    /\ m_hierarchy' = NULL
    /\ m_universe' = NULL
    /\ last' = Op("destroyUniverse", FALSE, Zero, Zero, NoHeader, 0)
    /\ data' = NoUniverse(data)
    /\ Quiet
    /\ UNCHANGED <<plugins, m_fps_frame, m_fps, m_last_time_delta, m_timer, m_fps_timer>>

\* Mutant of DestroyUniverse: m_hierarchy is destroyed but not reset to nullptr.
DestroyUniverseStaleHierarchy ==
    /\ m_universe # NULL
    /\ LET ds == DestroyScenes(m_scenes, Len(m_scenes))
       IN  /\ calls' = ds \o <<Call("destroy", "hierarchy", m_hierarchy, NULL, Zero),
                               Call("deleteObject", "universe", m_universe, NULL, Zero)>>
           /\ created' = Released(created, ds)
    /\ m_scenes' = <<>>
    /\ m_hierarchy' = m_hierarchy
    /\ m_universe' = NULL
    /\ last' = Op("destroyUniverse", FALSE, Zero, Zero, NoHeader, 0)
    /\ data' = NoUniverse(data)
    /\ Quiet
    /\ UNCHANGED <<plugins, m_fps_frame, m_fps, m_last_time_delta, m_timer, m_fps_timer>>

DestroyUniverse ==
    /\ m_universe # NULL
    /\ LET ds == DestroyScenes(m_scenes, Len(m_scenes))
       IN  /\ calls' = ds \o <<Call("destroy", "hierarchy", m_hierarchy, NULL, Zero),
                               Call("deleteObject", "universe", m_universe, NULL, Zero)>>
           /\ created' = Released(created, ds)
    /\ m_scenes' = <<>>
    /\ m_hierarchy' = NULL
    /\ m_universe' = NULL
    /\ last' = Op("destroyUniverse", FALSE, Zero, Zero, NoHeader, 0)
    /\ data' = NoUniverse(data)
    /\ Quiet
    /\ UNCHANGED <<plugins, m_fps_frame, m_fps, m_last_time_delta, m_timer, m_fps_timer>>

\* destroyUniverse with no universe, in a build where ASSERT compiles to
\* nothing: the if skips the body.
DestroyUniverseNone ==
    /\ m_universe = NULL
    /\ calls' = <<>>
    /\ last' = Op("destroyUniverse", FALSE, Zero, Zero, NoHeader, 0)
    /\ Quiet
    /\ UNCHANGED <<plugins, m_universe, m_hierarchy, m_scenes, m_fps_frame, m_fps,
                   m_last_time_delta, m_timer, m_fps_timer, created, data>>

----
\* EngineImpl::update and EngineImpl::updateGame.

\* The loop of updateGame(), from index i on: update(dt) on every scene.
RECURSIVE UpdateScenes(_, _, _)
UpdateScenes(scenes, i, dt) ==
    IF i > Len(scenes) THEN <<>>
    ELSE <<Call("update", "scene", scenes[i].id, NULL, dt)>>
         \o UpdateScenes(scenes, i + 1, dt)

\* Mutant of updateGame: the plugin manager is updated before the scenes.
updateGameManagerFirst(scenes, dt) ==
    <<Call("update", "pluginManager", 0, NULL, dt)>>
    \o UpdateScenes(scenes, 1, dt)
    \o <<Call("update", "inputSystem", 0, NULL, dt)>>

\* updateGame(dt): every scene, then the plugin manager, then the input system.
updateGame(scenes, dt) ==
    UpdateScenes(scenes, 1, dt)
    \o <<Call("update", "pluginManager", 0, NULL, dt),
         Call("update", "inputSystem", 0, NULL, dt)>>

\* Mutant of UpdateRendererScenes: the test on the scene's plugin is missing.
RECURSIVE UpdateRendererScenesUnfiltered(_, _, _, _)
UpdateRendererScenesUnfiltered(scenes, renderer, i, dt) ==
    IF i > Len(scenes) THEN <<>>
    ELSE <<Call("update", "scene", scenes[i].id, NULL, dt)>>
         \o UpdateRendererScenesUnfiltered(scenes, renderer, i + 1, dt)

\* The loop of update() when the game is not running, from index i on:
\* update(dt) on the scenes whose plugin is the renderer.
RECURSIVE UpdateRendererScenes(_, _, _, _)
UpdateRendererScenes(scenes, renderer, i, dt) ==
    IF i > Len(scenes) THEN <<>>
    ELSE (IF scenes[i].plugin = renderer
            THEN <<Call("update", "scene", scenes[i].id, NULL, dt)>>
            ELSE <<>>)
         \o UpdateRendererScenes(scenes, renderer, i + 1, dt)

\* Mutant of ForcedTiming: m_fps_frame is left as it is.
ForcedTimingKeepsFrame(time_delta_multiplier, forced_time_delta) ==
    LET dt == RMul(forced_time_delta, time_delta_multiplier)
        t == TimerTick(m_fps_timer)
    IN  [dt |-> dt,
         fps_frame |-> m_fps_frame,
         fps |-> IF RIsZero(dt) THEN Zero ELSE RDiv(One, dt),
         fps_timer |-> t.timer,
         timer |-> m_timer,
         calls |-> <<Call("tick", "fps_timer", 0, NULL, Zero)>>]

\* Mutant of ForcedTiming: the frame timer is ticked as well.
ForcedTimingTicksFrame(time_delta_multiplier, forced_time_delta) ==
    LET dt == RMul(forced_time_delta, time_delta_multiplier)
        t == TimerTick(m_fps_timer)
    IN  [dt |-> dt,
         fps_frame |-> 0,
         fps |-> IF RIsZero(dt) THEN Zero ELSE RDiv(One, dt),
         fps_timer |-> t.timer,
         timer |-> TimerTick(m_timer).timer,
         calls |-> <<Call("tick", "fps_timer", 0, NULL, Zero)>>]

\* The forced-mode branch of update() (forced_time_delta >= 0): the new values
\* of the timing fields, the frame's dt and the timer calls made.
ForcedTiming(time_delta_multiplier, forced_time_delta) ==
    LET dt == RMul(forced_time_delta, time_delta_multiplier)
        t == TimerTick(m_fps_timer)
    IN  [dt |-> dt,
         fps_frame |-> 0,
         fps |-> IF RIsZero(dt) THEN Zero ELSE RDiv(One, dt),
         fps_timer |-> t.timer,
         timer |-> m_timer,
         calls |-> <<Call("tick", "fps_timer", 0, NULL, Zero)>>]

\* Mutant of LiveTiming: the counter is compared before it is incremented, so
\* a sample is taken on the 31st frame.
LiveTimingLateSample(time_delta_multiplier) ==
    LET sample == m_fps_frame = FpsSamplePeriod
        frame == m_fps_frame + 1
        ft == TimerTick(m_fps_timer)
        t == TimerTick(m_timer)
    IN  [dt |-> RMul(t.ret, time_delta_multiplier),
         fps_frame |-> IF sample THEN 0 ELSE frame,
         fps |-> IF sample THEN RDiv(Rat(FpsSamplePeriod, 1), ft.ret) ELSE m_fps,
         fps_timer |-> IF sample THEN ft.timer ELSE m_fps_timer,
         timer |-> t.timer,
         calls |-> (IF sample THEN <<Call("tick", "fps_timer", 0, NULL, Zero)>>
                              ELSE <<>>)
                   \o <<Call("tick", "timer", 0, NULL, Zero)>>]

\* The live-mode branch of update() (forced_time_delta < 0).
LiveTiming(time_delta_multiplier) ==
    LET frame == m_fps_frame + 1
        sample == frame = FpsSamplePeriod
        ft == TimerTick(m_fps_timer)
        t == TimerTick(m_timer)
    IN  [dt |-> RMul(t.ret, time_delta_multiplier),
         fps_frame |-> IF sample THEN 0 ELSE frame,
         fps |-> IF sample THEN RDiv(Rat(FpsSamplePeriod, 1), ft.ret) ELSE m_fps,
         fps_timer |-> IF sample THEN ft.timer ELSE m_fps_timer,
         timer |-> t.timer,
         calls |-> (IF sample THEN <<Call("tick", "fps_timer", 0, NULL, Zero)>>
                              ELSE <<>>)
                   \o <<Call("tick", "timer", 0, NULL, Zero)>>]

Timing(time_delta_multiplier, forced_time_delta) ==
    IF RGeqZero(forced_time_delta)
      THEN ForcedTiming(time_delta_multiplier, forced_time_delta)
      ELSE LiveTiming(time_delta_multiplier)

\* Mutant of Dispatch: the drain of the file system sits in the running branch.
DispatchDrainWhenRunning(is_game_running, dt) ==
    IF is_game_running
      THEN updateGame(m_scenes, dt)
           \o <<Call("updateAsyncTransactions", "fileSystem", 0, NULL, Zero)>>
      ELSE UpdateRendererScenes(m_scenes, m_renderer, 1, dt)

\* The dispatch half of update(): the calls made with the frame's dt.
Dispatch(is_game_running, dt) ==
    (IF is_game_running
       THEN updateGame(m_scenes, dt)
       ELSE UpdateRendererScenes(m_scenes, m_renderer, 1, dt))
    \o <<Call("updateAsyncTransactions", "fileSystem", 0, NULL, Zero)>>

Update(is_game_running, time_delta_multiplier, forced_time_delta) ==
    LET t == Timing(time_delta_multiplier, forced_time_delta)
    IN  /\ m_fps_frame' = t.fps_frame
        /\ m_fps' = t.fps
        /\ m_fps_timer' = t.fps_timer
        /\ m_timer' = t.timer
        /\ m_last_time_delta' = t.dt
        /\ calls' = t.calls \o Dispatch(is_game_running, t.dt)
        /\ last' = Op("update", is_game_running, time_delta_multiplier,
                      forced_time_delta, NoHeader, 0)
        /\ Quiet
        /\ UNCHANGED <<plugins, m_universe, m_hierarchy, m_scenes, created, data>>

----
\* EngineImpl::loadPlugin: PluginManager::load(name) either fails and returns
\* nullptr, or registers a new plugin behind the ones already registered.
PluginManagerLoad(ps, ok) ==
    IF ok THEN [plugins |-> Append(ps, Len(ps) + 1), ret |-> Len(ps) + 1]
          ELSE [plugins |-> ps, ret |-> NULL]

LoadPlugin(ok) ==
    /\ ok => Len(plugins) < MaxPlugins
    /\ LET r == PluginManagerLoad(plugins, ok)
       IN  /\ plugins' = r.plugins
           /\ last' = Op("loadPlugin", FALSE, Zero, Zero, NoHeader, r.ret)
    /\ calls' = <<Call("load", "pluginManager", 0, NULL, Zero)>>
    /\ Quiet
    /\ UNCHANGED <<m_universe, m_hierarchy, m_scenes, m_fps_frame, m_fps,
                   m_last_time_delta, m_timer, m_fps_timer, created, data>>

----
\* EngineImpl::serialize and EngineImpl::deserialize.

\* The calls that hand the stream to the components, in the order of the code;
\* fn is "serialize" or "deserialize".
RECURSIVE SceneStreamCalls(_, _, _)
SceneStreamCalls(fn, scenes, i) ==
    IF i > Len(scenes) THEN <<>>
    ELSE <<Call(fn, "scene", scenes[i].id, NULL, Zero)>>
         \o SceneStreamCalls(fn, scenes, i + 1)

\* Mutant of ComponentStreamCalls: the renderer comes before the hierarchy.
ComponentStreamCallsRendererEarly(fn) ==
    <<Call(fn, "universe", m_universe, NULL, Zero),
      Call(fn, "renderer", m_renderer, NULL, Zero),
      Call(fn, "hierarchy", m_hierarchy, NULL, Zero),
      Call(fn, "pluginManager", 0, NULL, Zero)>>
    \o SceneStreamCalls(fn, m_scenes, 1)

\* Mutant of ComponentStreamCalls: deserialize() alone reads the renderer
\* before the hierarchy.
ComponentStreamCallsReadSwapped(fn) ==
    <<Call(fn, "universe", m_universe, NULL, Zero)>>
    \o (IF fn = "deserialize"
          THEN <<Call(fn, "renderer", m_renderer, NULL, Zero),
                 Call(fn, "hierarchy", m_hierarchy, NULL, Zero)>>
          ELSE <<Call(fn, "hierarchy", m_hierarchy, NULL, Zero),
                 Call(fn, "renderer", m_renderer, NULL, Zero)>>)
    \o <<Call(fn, "pluginManager", 0, NULL, Zero)>>
    \o SceneStreamCalls(fn, m_scenes, 1)

ComponentStreamCalls(fn) ==
    <<Call(fn, "universe", m_universe, NULL, Zero),
      Call(fn, "hierarchy", m_hierarchy, NULL, Zero),
      Call(fn, "renderer", m_renderer, NULL, Zero),
      Call(fn, "pluginManager", 0, NULL, Zero)>>
    \o SceneStreamCalls(fn, m_scenes, 1)

\* The calls that hand the stream to the path table and the components, in
\* the order of serialize() (fn = "serialize") and deserialize().
StreamCalls(fn) ==
    <<Call(fn, "pathManager", 0, NULL, Zero)>> \o ComponentStreamCalls(fn)

\* A 32-bit value as OutputBlob::write stores it (little endian), and as
\* InputBlob::read loads it.  Values are held as int32_t: a uint32_t above
\* 2^31 - 1 appears as the negative number with the same bytes.
LE32(x) ==
    LET y == IF x < 0 THEN (x + 2147483647) + 1 ELSE x
    IN  <<y % 256, (y \div 256) % 256, (y \div 65536) % 256,
          ((y \div 16777216) % 256) + (IF x < 0 THEN 128 ELSE 0)>>

FromLE32(b) ==
    b[1] + 256 * b[2] + 65536 * b[3]
    + 16777216 * (IF b[4] >= 128 THEN b[4] - 256 ELSE b[4])

\* SerializedEngineHeader under #pragma pack(1): m_magic, m_version,
\* m_reserved, four bytes each.
HeaderSize == 12
WriteHeader(header) == LE32(header[1]) \o LE32(header[2]) \o LE32(header[3])
ReadHeader(stream) ==
    <<FromLE32(SubSeq(stream, 1, 4)), FromLE32(SubSeq(stream, 5, 8)),
      FromLE32(SubSeq(stream, 9, 12))>>

\* crc32(data, length): CRC-32 (reflected polynomial 0xEDB88320, initial value
\* and final xor 0xFFFFFFFF), computed a byte at a time with the usual table.
\* The register is the set of its one bits.
PolyBits == {31, 30, 29, 27, 26, 24, 23, 21, 20, 19, 15, 9, 8, 5}
AllBits == 0..31
Xor(a, b) == (a \ b) \cup (b \ a)
ByteBits(byte) == {i \in 0..7: (byte \div (2 ^ i)) % 2 = 1}
ShiftRight(a) == {i - 1: i \in a \ {0}}

\* n steps of the bitwise division.
RECURSIVE CrcBits(_, _)
CrcBits(reg, n) ==
    IF n = 0 THEN reg
    ELSE CrcBits(IF 0 \in reg THEN Xor(ShiftRight(reg), PolyBits) ELSE ShiftRight(reg),
                 n - 1)

\* The table entries of the bytes with one bit set; the entry of any other
\* byte is the xor of the entries of its bits.
CrcTable == [i \in 0..7 |-> CrcBits({i}, 8)]

\* One byte: reg = table[(reg ^ byte) & 0xFF] ^ (reg >> 8).
CrcByte(reg, byte) ==
    LET index == Xor(reg \cap (0..7), ByteBits(byte))
        high == {i - 8: i \in reg \ (0..7)}
    IN  {k \in AllBits:
            ((IF k \in high THEN 1 ELSE 0)
             + Cardinality({i \in index: k \in CrcTable[i]})) % 2 = 1}

RECURSIVE CrcBytes(_, _, _)
CrcBytes(reg, bytes, i) ==
    IF i > Len(bytes) THEN reg
    ELSE CrcBytes(CrcByte(reg, bytes[i]), bytes, i + 1)

\* The byte of the register that starts at bit `base`.
RegByte(bits, base) ==
    LET B(k) == IF base + k \in bits THEN 2 ^ k ELSE 0
    IN  B(0) + B(1) + B(2) + B(3) + B(4) + B(5) + B(6) + B(7)

\* The register as the int32_t with the same bits.
BitsValue(bits) ==
    FromLE32(<<RegByte(bits, 0), RegByte(bits, 8), RegByte(bits, 16), RegByte(bits, 24)>>)

crc32(bytes) == BitsValue(Xor(CrcBytes(AllBits, bytes, 1), AllBits))

\* What a component writes when it is handed the stream: its content.
Written(d, call) ==
    IF call.on = "pathManager" THEN d.paths
    ELSE IF call.on = "universe" THEN d.universe
    ELSE IF call.on = "hierarchy" THEN d.hierarchy
    ELSE IF call.on = "renderer" THEN d.renderer
    ELSE IF call.on = "pluginManager" THEN d.pluginManager
    ELSE d.scenes[CHOOSE j \in 1..Len(m_scenes): m_scenes[j].id = call.id]

\* What a component holds after it has read `byte` from the stream.
Loaded(d, call, byte) ==
    IF call.on = "pathManager" THEN [d EXCEPT !.paths = byte]
    ELSE IF call.on = "universe" THEN [d EXCEPT !.universe = byte]
    ELSE IF call.on = "hierarchy" THEN [d EXCEPT !.hierarchy = byte]
    ELSE IF call.on = "renderer" THEN [d EXCEPT !.renderer = byte]
    ELSE IF call.on = "pluginManager" THEN [d EXCEPT !.pluginManager = byte]
    ELSE [d EXCEPT !.scenes[CHOOSE j \in 1..Len(m_scenes): m_scenes[j].id = call.id]
                       = byte]

\* The bytes the calls cs write, one component after the other.
WriteAll(d, cs) == [i \in 1..Len(cs) |-> Written(d, cs[i])]

\* The components after the calls cs, from call i on, have each read their
\* byte: the stream is positional, call i reads the byte at pos + i.
RECURSIVE ReadAll(_, _, _, _, _)
ReadAll(d, cs, stream, pos, i) ==
    IF i > Len(cs) THEN d
    ELSE ReadAll(Loaded(d, cs[i], stream[pos + i]), cs, stream, pos, i + 1)

\* Mutant of SerializeStream: the offset is taken before the path table.
SerializeStreamEarlyOffset ==
    LET header == <<SERIALIZED_ENGINE_MAGIC, LATEST, 0>>
        cs == StreamCalls("serialize")
        pos == Len(WriteHeader(header))
        stream == WriteHeader(header) \o WriteAll(data, cs)
    IN  [header |-> header, stream |-> stream, pos |-> pos,
         crc |-> crc32(SubSeq(stream, pos + 1, Len(stream)))]

\* The stream serialize() writes: the header, the path table, then (from
\* offset pos on) the components; and the crc it returns.
SerializeStream ==
    LET header == <<SERIALIZED_ENGINE_MAGIC, LATEST, 0>>
        cs == StreamCalls("serialize")
        pos == Len(WriteHeader(header) \o <<Written(data, cs[1])>>)
        stream == WriteHeader(header) \o WriteAll(data, cs)
    IN  [header |-> header, stream |-> stream, pos |-> pos,
         crc |-> crc32(SubSeq(stream, pos + 1, Len(stream)))]

\* serialize() dereferences m_universe and m_hierarchy: it is called with a
\* universe.
Serialize ==
    /\ m_universe # NULL
    /\ \E written \in {SerializeStream}:
           /\ calls' = <<Call("write", "header", written.header[1], written.header[2], Zero)>>
                       \o StreamCalls("serialize")
           /\ out' = written.stream
           /\ last' = Op("serialize", FALSE, Zero, Zero, written.header, written.crc)
    /\ UNCHANGED <<plugins, m_universe, m_hierarchy, m_scenes, m_fps_frame, m_fps,
                   m_last_time_delta, m_timer, m_fps_timer, created,
                   engine, m_disk_file_device, data, blob, snap>>

\* Mutant of HeaderCheck: the magic is not compared.
HeaderCheckNoMagic(header) ==
    IF header[2] > LATEST THEN "Unsupported version" ELSE "ok"

\* Mutant of HeaderCheck: only the latest version is accepted.
HeaderCheckLatestOnly(header) ==
    IF header[1] # SERIALIZED_ENGINE_MAGIC THEN "Wrong or corrupted file"
    ELSE IF header[2] # LATEST THEN "Unsupported version"
    ELSE "ok"

\* Mutant of HeaderCheck: a reserved slot that is not zero is rejected.
HeaderCheckReserved(header) ==
    IF header[1] # SERIALIZED_ENGINE_MAGIC THEN "Wrong or corrupted file"
    ELSE IF header[2] > LATEST THEN "Unsupported version"
    ELSE IF header[3] # 0 THEN "Wrong or corrupted file"
    ELSE "ok"

\* The header check of deserialize(): "ok", or the error it logs.  header is
\* <<m_magic, m_version, m_reserved>>, m_version with its int32_t value.
HeaderCheck(header) ==
    IF header[1] # SERIALIZED_ENGINE_MAGIC THEN "Wrong or corrupted file"
    ELSE IF header[2] > LATEST THEN "Unsupported version"
    ELSE "ok"

\* deserialize() of `stream`: the header read, the value returned, the calls
\* made and the components afterwards.
DeserializeResult(stream) ==
    LET header == ReadHeader(stream)
        check == HeaderCheck(header)
        cs == StreamCalls("deserialize")
    IN  [header |-> header,
         ret |-> IF check = "ok" THEN 1 ELSE 0,
         calls |-> <<Call("read", "header", 0, NULL, Zero)>>
                   \o (IF check = "ok" THEN cs
                                       ELSE <<Call(check, "log_error", 0, NULL, Zero)>>),
         data |-> IF check = "ok" THEN ReadAll(data, cs, stream, HeaderSize, 1)
                                  ELSE data]

\* The streams deserialize() is given hold a whole header.  Past the header
\* check deserialize() dereferences m_universe and m_hierarchy, and every
\* component reads its part: a stream with a good header is read with a
\* universe, and it holds one part for each component of the engine.
Deserialize(stream) ==
    /\ Len(stream) >= HeaderSize
    /\ HeaderCheck(ReadHeader(stream)) = "ok" =>
          /\ m_universe # NULL
          /\ Len(stream) = HeaderSize + Len(StreamCalls("deserialize"))
    /\ \E result \in {DeserializeResult(stream)}:
           /\ calls' = result.calls
           /\ data' = result.data
           /\ last' = Op("deserialize", FALSE, Zero, Zero, result.header, result.ret)
    /\ Quiet
    /\ UNCHANGED <<plugins, m_universe, m_hierarchy, m_scenes, m_fps_frame, m_fps,
                   m_last_time_delta, m_timer, m_fps_timer, created>>

\* The stream with the given header and the parts the components of the
\* engine would write now.
StreamOf(header) == WriteHeader(header) \o WriteAll(data, StreamCalls("serialize"))

\* `stream` with its header overwritten.
WithHeader(stream, header) ==
    WriteHeader(header) \o SubSeq(stream, HeaderSize + 1, Len(stream))

----
\* The world around save and load.

\* The game goes on in its universe: the path table reaches generation gp,
\* the other components generation g.
Play(gp, g) ==
    /\ m_universe # NULL
    /\ data' = [Contents(m_universe # NULL, m_scenes, g)
                   EXCEPT !.paths = Content(Kind.paths, gp)]
    /\ data' # data
    /\ calls' = <<>>
    /\ last' = Op("play", FALSE, Zero, Zero, NoHeader, 0)
    /\ Quiet
    /\ UNCHANGED <<plugins, m_universe, m_hierarchy, m_scenes, m_fps_frame, m_fps,
                   m_last_time_delta, m_timer, m_fps_timer, created>>

\* The caller of serialize() keeps the stream and the crc returned; snap
\* remembers what the components held when the stream was written.
Save ==
    /\ last.op = "serialize"
    /\ blob' = out
    /\ snap' = [data |-> data, scenes |-> m_scenes, crc |-> last.ret]
    /\ out' = <<>>
    /\ calls' = <<>>
    /\ last' = Op("save", FALSE, Zero, Zero, NoHeader, 0)
    /\ UNCHANGED <<plugins, m_universe, m_hierarchy, m_scenes, m_fps_frame, m_fps,
                   m_last_time_delta, m_timer, m_fps_timer, created,
                   engine, m_disk_file_device, data>>

----
\* EngineImpl::getSceneByComponentType.

\* IScene::ownComponentType: the scene of plugin p owns the component types p
\* and p + 1, so that a type may have two owners in the registry, or none.
OwnComponentType(scene, type) == type \in {scene.plugin, scene.plugin + 1}

\* The call that asks a scene, and what the scene answered.
Asked(scene, type) ==
    [fn |-> "ownComponentType", on |-> "scene", id |-> scene.id, arg |-> type,
     dt |-> Zero, owns |-> OwnComponentType(scene, type)]

\* Mutant of ScanScenes: the scan runs from the back of the registry.
RECURSIVE ScanScenesFromBack(_, _, _)
ScanScenesFromBack(scenes, type, i) ==
    LET k == Len(scenes) + 1 - i
    IN  IF i > Len(scenes) THEN [ret |-> NULL, calls |-> <<>>]
        ELSE IF OwnComponentType(scenes[k], type)
          THEN [ret |-> scenes[k].id, calls |-> <<Asked(scenes[k], type)>>]
          ELSE LET rest == ScanScenesFromBack(scenes, type, i + 1)
               IN  [ret |-> rest.ret, calls |-> <<Asked(scenes[k], type)>> \o rest.calls]

\* The loop over m_scenes from index i on: the scene returned (NULL if none)
\* and the scenes asked.
RECURSIVE ScanScenes(_, _, _)
ScanScenes(scenes, type, i) ==
    IF i > Len(scenes) THEN [ret |-> NULL, calls |-> <<>>]
    ELSE IF OwnComponentType(scenes[i], type)
      THEN [ret |-> scenes[i].id, calls |-> <<Asked(scenes[i], type)>>]
      ELSE LET rest == ScanScenes(scenes, type, i + 1)
           IN  [ret |-> rest.ret, calls |-> <<Asked(scenes[i], type)>> \o rest.calls]

GetSceneByComponentType(type) ==
    /\ \E found \in {ScanScenes(m_scenes, type, 1)}:
           /\ calls' = found.calls
           /\ last' = Op("getSceneByComponentType", FALSE, Zero, Zero, NoHeader, found.ret)
    /\ Quiet
    /\ UNCHANGED <<plugins, m_universe, m_hierarchy, m_scenes, m_fps_frame, m_fps,
                   m_last_time_delta, m_timer, m_fps_timer, created, data>>

----
\* Engine::create and Engine::destroy.

ThePluginManager == 1

\* EngineImpl::EngineImpl: the file system is the one handed in (injected),
\* or the engine builds it with its two devices.
EngineImplCtor(injected) ==
    [disk |-> IF injected THEN NULL ELSE TheDiskDevice,
     calls |-> (IF injected THEN <<>>
                ELSE <<Call("create", "fileSystem", 0, NULL, Zero),
                       Call("newObject", "memoryFileDevice", 0, NULL, Zero),
                       Call("newObject", "diskFileDevice", TheDiskDevice, NULL, Zero)>>)
               \o <<Call("create", "resourceManager", 0, NULL, Zero),
                    Call("create", "m_timer", 0, NULL, Zero),
                    Call("create", "m_fps_timer", 0, NULL, Zero)>>]

\* The steps of create() that can fail.
Failures == {"none", "pluginManager", "rendererInstance", "rendererCreate", "inputSystem"}

\* Mutant of EngineImplCreate: a renderer whose create() fails is left alone.
EngineImplCreateLeaksRenderer(fail) ==
    LET pm == Call("create", "pluginManager", 0,
                   IF fail = "pluginManager" THEN NULL ELSE ThePluginManager, Zero)
        instance == Call("createInstance", "renderer", 0,
                         IF fail = "rendererInstance" THEN NULL ELSE m_renderer, Zero)
        create == Call("create", "renderer", m_renderer,
                       IF fail = "rendererCreate" THEN 0 ELSE 1, Zero)
        add == Call("addPlugin", "pluginManager", ThePluginManager, m_renderer, Zero)
        input == Call("create", "inputSystem", 0,
                      IF fail = "inputSystem" THEN 0 ELSE 1, Zero)
    IN  IF fail = "pluginManager"
          THEN [ret |-> FALSE, pm |-> NULL, plugins |-> <<>>, calls |-> <<pm>>]
        ELSE IF fail = "rendererInstance"
          THEN [ret |-> FALSE, pm |-> ThePluginManager, plugins |-> <<>>,
                calls |-> <<pm, instance>>]
        ELSE IF fail = "rendererCreate"
          THEN [ret |-> FALSE, pm |-> ThePluginManager, plugins |-> <<>>,
                calls |-> <<pm, instance, create>>]
        ELSE [ret |-> fail # "inputSystem", pm |-> ThePluginManager,
              plugins |-> <<m_renderer>>,
              calls |-> <<pm, instance, create, add, input>>]

\* EngineImpl::create(): what it returns, the plugin manager and the plugins
\* it leaves, and the calls it makes (arg: what the call returned).
EngineImplCreate(fail) ==
    LET pm == Call("create", "pluginManager", 0,
                   IF fail = "pluginManager" THEN NULL ELSE ThePluginManager, Zero)
        instance == Call("createInstance", "renderer", 0,
                         IF fail = "rendererInstance" THEN NULL ELSE m_renderer, Zero)
        create == Call("create", "renderer", m_renderer,
                       IF fail = "rendererCreate" THEN 0 ELSE 1, Zero)
        add == Call("addPlugin", "pluginManager", ThePluginManager, m_renderer, Zero)
        input == Call("create", "inputSystem", 0,
                      IF fail = "inputSystem" THEN 0 ELSE 1, Zero)
    IN  IF fail = "pluginManager"
          THEN [ret |-> FALSE, pm |-> NULL, plugins |-> <<>>, calls |-> <<pm>>]
        ELSE IF fail = "rendererInstance"
          THEN [ret |-> FALSE, pm |-> ThePluginManager, plugins |-> <<>>,
                calls |-> <<pm, instance>>]
        ELSE IF fail = "rendererCreate"
          THEN [ret |-> FALSE, pm |-> ThePluginManager, plugins |-> <<>>,
                calls |-> <<pm, instance, create,
                            Call("destroyInstance", "renderer", m_renderer, NULL, Zero)>>]
        ELSE [ret |-> fail # "inputSystem", pm |-> ThePluginManager,
              plugins |-> <<m_renderer>>,
              calls |-> <<pm, instance, create, add, input>>]

\* PluginManager::destroy: the plugin manager tears down the plugins it
\* holds, the last registered first.
PluginManagerDestroy(ps) ==
    [i \in 1..Len(ps) |-> Call("destroy", "plugin", ps[Len(ps) + 1 - i], NULL, Zero)]

\* Mutant of Teardown: the file system and its devices are destroyed whether
\* or not the engine built them.
TeardownAnyFileSystem(pm, ps, disk) ==
    <<Call("destroy", "m_timer", 0, NULL, Zero),
      Call("destroy", "m_fps_timer", 0, NULL, Zero),
      Call("destroy", "pluginManager", pm, NULL, Zero)>>
    \o PluginManagerDestroy(ps)
    \o <<Call("destroy", "inputSystem", 0, NULL, Zero)>>
    \o <<Call("destroy", "fileSystem", 0, NULL, Zero),
         Call("deleteObject", "memoryFileDevice", 0, NULL, Zero),
         Call("deleteObject", "diskFileDevice", disk, NULL, Zero)>>

\* EngineImpl::~EngineImpl, with plugin manager pm holding the plugins ps and
\* m_disk_file_device = disk.
Teardown(pm, ps, disk) ==
    <<Call("destroy", "m_timer", 0, NULL, Zero),
      Call("destroy", "m_fps_timer", 0, NULL, Zero),
      Call("destroy", "pluginManager", pm, NULL, Zero)>>
    \o PluginManagerDestroy(ps)
    \o <<Call("destroy", "inputSystem", 0, NULL, Zero)>>
    \o (IF disk # NULL
          THEN <<Call("destroy", "fileSystem", 0, NULL, Zero),
                 Call("deleteObject", "memoryFileDevice", 0, NULL, Zero),
                 Call("deleteObject", "diskFileDevice", disk, NULL, Zero)>>
          ELSE <<>>)

\* Engine::create: the constructor, create(), and on failure the destructor.
\* last.run tells whether a file system was handed in.
EngineCreate(injected, fail) ==
    /\ engine = "none"
    /\ \E ctor \in {EngineImplCtor(injected)}, made \in {EngineImplCreate(fail)}:
           /\ m_disk_file_device' = ctor.disk
           /\ IF made.ret
                THEN /\ engine' = "alive"
                     /\ plugins' = made.plugins
                     /\ calls' = ctor.calls \o made.calls
                     /\ last' = Op("create", injected, Zero, Zero, NoHeader, 1)
                ELSE /\ engine' = "destroyed"
                     /\ plugins' = <<>>
                     /\ calls' = ctor.calls \o made.calls
                                 \o Teardown(made.pm, made.plugins, ctor.disk)
                     /\ last' = Op("create", injected, Zero, Zero, NoHeader, NULL)
    /\ m_fps_frame' = 0
    /\ m_fps' = Zero
    /\ m_universe' = NULL
    /\ m_hierarchy' = NULL
    /\ m_scenes' = <<>>
    /\ m_timer' = 0
    /\ m_fps_timer' = 0
    /\ out' = <<>>
    /\ UNCHANGED <<m_last_time_delta, created, data, blob, snap>>

\* Engine::destroy: the destructor.  It leaves the universe, the hierarchy
\* and the scenes as they are.
EngineDestroy ==
    /\ engine = "alive"
    /\ engine' = "destroyed"
    /\ calls' = Teardown(ThePluginManager, plugins, m_disk_file_device)
    /\ plugins' = <<>>
    /\ last' = Op("destroy", FALSE, Zero, Zero, NoHeader, 0)
    /\ out' = <<>>
    /\ UNCHANGED <<m_universe, m_hierarchy, m_scenes, m_fps_frame, m_fps,
                   m_last_time_delta, m_timer, m_fps_timer, created,
                   m_disk_file_device, data, blob, snap>>

\* Before Engine::create.
InitLifetime ==
    /\ engine = "none"
    /\ plugins = <<>>
    /\ m_universe = NULL
    /\ m_hierarchy = NULL
    /\ m_scenes = <<>>
    /\ m_fps_frame = 0
    /\ m_fps = Zero
    /\ m_last_time_delta \in Indeterminate
    /\ m_timer = 0
    /\ m_fps_timer = 0
    /\ created = <<>>
    /\ calls = <<>>
    /\ last = Op("none", FALSE, Zero, Zero, NoHeader, 0)
    /\ m_disk_file_device = NULL
    /\ data = Contents(FALSE, <<>>, 0)
    /\ out = <<>>
    /\ blob = <<>>
    /\ snap = NoSnapshot

----
\* The inputs the operations are called with.

Multipliers == {One, Rat(2, 1)}
ForcedDeltas == {Rat(-1, 1), Zero, Rat(1, 10)}
Magics == {SERIALIZED_ENGINE_MAGIC, SERIALIZED_ENGINE_MAGIC + 1}
Versions == {-1, BASE, LATEST, LATEST + 1}
Reserved == {0, 1}

\* Every operation of the engine, called back to back within one clock quantum.
Next ==
    \/ \E makes \in [1..Len(plugins) -> BOOLEAN]: CreateUniverse(makes)
    \/ DestroyUniverse
    \/ DestroyUniverseNone
    \/ \E run \in BOOLEAN, mult \in Multipliers, forced \in ForcedDeltas:
          Update(run, mult, forced)
    \/ \E ok \in BOOLEAN: LoadPlugin(ok)
    \/ Serialize
    \/ \E m \in Magics, v \in Versions, m_reserved \in Reserved:
          Deserialize(StreamOf(<<m, v, m_reserved>>))

Spec == Init /\ [][Next]_vars

\* Save and load: plugins are loaded before the first stream is kept, the
\* game changes what the components hold, universes come and go, a stream is
\* written and kept, and the kept stream is read back, the magic and the
\* reserved slot of its header as written or overwritten.
\* What a component holds is opaque to the engine, which only passes the
\* stream on: two generations, as constructed (0) and changed (1), tell a
\* component that was read back from one that was not.
Generations == {0, 1}

NextCodec ==
    \/ \E makes \in [1..Len(plugins) -> BOOLEAN]: CreateUniverse(makes)
    \/ DestroyUniverse
    \/ \E ok \in BOOLEAN:
          blob = <<>> /\ Len(plugins) < MaxSavedPlugins /\ LoadPlugin(ok)
    \/ \E gp \in Generations, g \in Generations \ {0}: Play(gp, g)
    \/ Serialize
    \/ Save
    \/ \E m \in Magics, m_reserved \in Reserved:
          blob # <<>> /\ Deserialize(WithHeader(blob, <<m, LATEST, m_reserved>>))

SpecCodec == Init /\ [][NextCodec]_vars

\* The life of one engine: it is created (or fails to be), plugins are
\* loaded, universes come and go, scenes are looked up, and it is destroyed.
ComponentTypes == 1..(MaxPlugins + 2)

NextLifetime ==
    \/ \E injected \in BOOLEAN, fail \in Failures: EngineCreate(injected, fail)
    \/ engine = "alive" /\ \E makes \in [1..Len(plugins) -> BOOLEAN]: CreateUniverse(makes)
    \/ engine = "alive" /\ DestroyUniverse
    \/ engine = "alive" /\ \E ok \in BOOLEAN: LoadPlugin(ok)
    \/ engine = "alive" /\ \E type \in ComponentTypes: GetSceneByComponentType(type)
    \/ EngineDestroy

SpecLifetime == InitLifetime /\ [][NextLifetime]_vars

\* The frame loop: a driver that calls update() frame after frame, with every
\* multiplier and forced delta, while the clock advances.
NextFrames ==
    \/ Tick
    \/ \E run \in BOOLEAN, mult \in Multipliers, forced \in ForcedDeltas:
          Update(run, mult, forced)

SpecFrames == Init /\ [][NextFrames]_vars

----
\* Properties of the universe / scene lifecycle.

\* The calls of the most recent operation named fn.
CallsNamed(fn) == SelectSeq(calls, LAMBDA c: c.fn = fn)

\* C1: createUniverse() followed by destroyUniverse() restores the state before
\* createUniverse(): whenever destroyUniverse() has just run, the scene registry
\* is empty, the universe and the hierarchy pointers are null, and no plugin
\* is left with a scene it handed out, whichever plugins returned a scene.
C1_CreateDestroyRestores ==
    last.op = "destroyUniverse" =>
        /\ m_scenes = <<>>
        /\ m_universe = NULL
        /\ m_hierarchy = NULL
        /\ created = <<>>

\* destroyUniverse() has torn down a universe in which the renderer returned no
\* scene and the plugins 2 and 3 returned one each.
C1_Witness ==
    /\ last.op = "destroyUniverse"
    /\ Len(plugins) = 3
    /\ Len(calls) = 4
    /\ calls[1].fn = "destroyScene" /\ calls[1].id = 3
    /\ calls[2].fn = "destroyScene" /\ calls[2].id = 2
    /\ m_universe = NULL

\* The calls destroyUniverse() is to make for the scenes the plugins handed
\* out in the order `made`: the last one first, each on the plugin that made it.
ExpectedDestroyCalls(made) ==
    [i \in 1..Len(made) |->
        Call("destroyScene", "plugin", made[Len(made) + 1 - i].plugin,
             made[Len(made) + 1 - i].id, Zero)]

\* C2: destroyUniverse() with an active universe destroys every scene exactly
\* once, in the reverse of the order in which createUniverse() obtained them,
\* each through destroyScene of the plugin whose createScene returned it; then
\* it destroys the hierarchy, and the universe last.
C2_ReverseDestruction ==
    [][(m_universe # NULL /\ m_universe' = NULL) =>
          calls' = ExpectedDestroyCalls(created)
                   \o <<Call("destroy", "hierarchy", m_hierarchy, NULL, Zero),
                        Call("deleteObject", "universe", m_universe, NULL, Zero)>>]_vars

\* destroyUniverse() has destroyed three scenes, of three different plugins.
C2_Witness ==
    /\ last.op = "destroyUniverse"
    /\ Len(calls) = 5
    /\ calls[1].id = 3 /\ calls[2].id = 2 /\ calls[3].id = 1
    /\ calls[4].on = "hierarchy" /\ calls[5].on = "universe"

\* C3: in every state reached by createUniverse, destroyUniverse, loadPlugin,
\* update, serialize and deserialize calls, the hierarchy exists exactly when
\* the universe does, and scenes exist only when the universe does.
C3_LifetimesMatch ==
    /\ (m_hierarchy # NULL) <=> (m_universe # NULL)
    /\ (m_scenes # <<>>) => (m_universe # NULL)
    /\ (created # <<>>) => (m_universe # NULL)

\* A universe with two scenes is active and a deserialize() has just read into
\* it.
C3_Witness ==
    /\ m_universe # NULL
    /\ m_hierarchy # NULL
    /\ Len(m_scenes) = 2
    /\ last.op = "deserialize"
    /\ last.ret = 1

----
\* Properties of the frame update.

\* The calls of the most recent step on receivers of kind `on`.
CallsOn(on) == SelectSeq(calls, LAMBDA c: c.on = on)

\* C4: update(is_game_running = true, ...) calls update(dt) on every scene of
\* the registry once, in registry order, then on the plugin manager once, then
\* on the input system once, all with the dt cached in m_last_time_delta.
C4_RunningDispatch ==
    (last.op = "update" /\ last.run) =>
        LET u == CallsNamed("update")
            n == Len(m_scenes)
        IN  /\ Len(u) = n + 2
            /\ \A i \in 1..n:
                  u[i] = Call("update", "scene", m_scenes[i].id, NULL, m_last_time_delta)
            /\ u[n + 1] = Call("update", "pluginManager", 0, NULL, m_last_time_delta)
            /\ u[n + 2] = Call("update", "inputSystem", 0, NULL, m_last_time_delta)

\* A running frame with forced delta 1/10 and multiplier 2 was dispatched to
\* three scenes.
C4_Witness ==
    /\ last.op = "update"
    /\ last.run
    /\ Len(m_scenes) = 3
    /\ m_last_time_delta = Rat(1, 5)
    /\ Len(CallsNamed("update")) = 5

\* C5: update(is_game_running = false, ...) calls update(dt) on the scenes
\* whose plugin is m_renderer and on nothing else: the other scenes, the plugin
\* manager and the input system receive no call in that frame.
C5_PausedDispatch ==
    (last.op = "update" /\ ~last.run) =>
        /\ \A i \in 1..Len(calls):
              calls[i].fn = "update" =>
                  /\ calls[i].on = "scene"
                  /\ calls[i].dt = m_last_time_delta
                  /\ \E j \in 1..Len(m_scenes):
                        m_scenes[j].id = calls[i].id /\ m_scenes[j].plugin = m_renderer
        /\ \A j \in 1..Len(m_scenes):
              Len(SelectSeq(calls, LAMBDA c: c.on = "scene" /\ c.id = m_scenes[j].id))
                  = IF m_scenes[j].plugin = m_renderer THEN 1 ELSE 0
        /\ CallsOn("pluginManager") = <<>>
        /\ CallsOn("inputSystem") = <<>>

\* A paused frame on a universe with the renderer's scene and two others: one
\* update call was made.
C5_Witness ==
    /\ last.op = "update"
    /\ ~last.run
    /\ Len(m_scenes) = 3
    /\ m_scenes[1].plugin = m_renderer
    /\ Len(CallsNamed("update")) = 1

\* C6: every update(), running or paused, forced or live, drains the file
\* system's asynchronous completions exactly once, as its last call, after the
\* scene, plugin-manager and input-system updates; no other operation drains.
C6_DrainOncePerUpdate ==
    LET drains == CallsNamed("updateAsyncTransactions")
    IN  IF last.op = "update"
          THEN /\ Len(drains) = 1
               /\ calls[Len(calls)].fn = "updateAsyncTransactions"
               /\ calls[Len(calls)].on = "fileSystem"
          ELSE drains = <<>>

\* A paused live-mode frame on a universe with two scenes or more has drained.
C6_Witness ==
    /\ last.op = "update"
    /\ ~last.run
    /\ last.forced = Rat(-1, 1)
    /\ Len(m_scenes) >= 2
    /\ Len(calls) >= 3
    /\ calls[Len(calls)].fn = "updateAsyncTransactions"

\* C7: in forced mode (forced_time_delta >= 0) update() sets the cached delta
\* to forced_time_delta * time_delta_multiplier, fps to 1/dt (0 when dt is 0)
\* and the sample counter to 0, and ticks the fps-sample timer once and the
\* frame timer not at all; update(_, 2, 1/10) gives dt = 1/5 and fps = 5.
C7_ForcedMode ==
    (last.op = "update" /\ last.forced[1] >= 0) =>
        LET f == last.forced
            m == last.mult
            dt == m_last_time_delta
        IN  /\ dt[2] > 0
            /\ dt[1] * f[2] * m[2] = f[1] * m[1] * dt[2]
            /\ IF dt[1] = 0 THEN m_fps = <<0, 1>>
                            ELSE m_fps[2] > 0 /\ m_fps[1] * dt[1] = m_fps[2] * dt[2]
            /\ m_fps_frame = 0
            /\ m_fps_timer = 0
            /\ CallsOn("fps_timer") = <<Call("tick", "fps_timer", 0, NULL, Zero)>>
            /\ CallsOn("timer") = <<>>
            /\ (f = <<1, 10>> /\ m = <<2, 1>>) => (dt = <<1, 5>> /\ m_fps = <<5, 1>>)

\* update(_, 2, 1/10) has run.
C7_Witness ==
    /\ last.op = "update"
    /\ last.forced = <<1, 10>>
    /\ last.mult = <<2, 1>>
    /\ m_fps = <<5, 1>>

\* A live-mode update() step.
LiveStep == last'.op = "update" /\ last'.forced[1] < 0

\* C8: in live mode the sample counter stays in 0..29; the call that finds it
\* at 29 (the 30th since it was 0) sets fps to 30 / the time elapsed on the
\* fps-sample timer, ticks that timer and returns the counter to 0; every other
\* live-mode call adds one to the counter and leaves fps and that timer alone.
C8_LiveSampling ==
    /\ [](m_fps_frame \in 0..(FpsSamplePeriod - 1))
    /\ [][LiveStep =>
            IF m_fps_frame = FpsSamplePeriod - 1
              THEN /\ m_fps_frame' = 0
                   /\ m_fps' = (IF m_fps_timer = 0 THEN Inf
                                ELSE Rat(FpsSamplePeriod, m_fps_timer))
                   /\ m_fps_timer' = 0
              ELSE /\ m_fps_frame' = m_fps_frame + 1
                   /\ m_fps' = m_fps
                   /\ m_fps_timer' = m_fps_timer]_vars

\* The 30th live-mode call has resampled fps, two clock quanta after the
\* previous tick of the fps-sample timer.
C8_Witness ==
    /\ last.op = "update"
    /\ last.forced = Rat(-1, 1)
    /\ m_fps_frame = 0
    /\ m_fps = <<15, 1>>
    /\ Len(CallsOn("fps_timer")) = 1

----
\* Properties of the header check of deserialize().

\* The calls of the most recent step that hand the stream to a component.
ComponentReads == CallsNamed("deserialize")

\* C9: deserialize() of a stream whose magic is not SERIALIZED_ENGINE_MAGIC
\* returns false having read the header and nothing else: no component is
\* handed the stream, and universe, hierarchy and registry stay as they were.
C9_BadMagicRejected ==
    [][(last'.op = "deserialize" /\ last'.hdr[1] # SERIALIZED_ENGINE_MAGIC) =>
          /\ last'.ret = 0
          /\ ComponentReads' = <<>>
          /\ CallsNamed("read")' = <<Call("read", "header", 0, NULL, Zero)>>
          /\ UNCHANGED <<m_universe, m_hierarchy, m_scenes, created, plugins>>]_vars

\* deserialize() has rejected a stream with a wrong magic while a universe with
\* two scenes or more was active.
C9_Witness ==
    /\ last.op = "deserialize"
    /\ last.hdr[1] # SERIALIZED_ENGINE_MAGIC
    /\ last.ret = 0
    /\ m_universe # NULL
    /\ Len(m_scenes) >= 2

\* C10: deserialize() of a stream with the right magic returns false, before
\* any component is handed the stream, when the version is greater than LATEST;
\* with a version not greater than LATEST it hands the stream to the path
\* table, the universe, the hierarchy, the renderer, the plugin manager and
\* every scene, once each, and returns true.
C10_VersionCheck ==
    (last.op = "deserialize" /\ last.hdr[1] = SERIALIZED_ENGINE_MAGIC) =>
        IF last.hdr[2] > LATEST
          THEN last.ret = 0 /\ ComponentReads = <<>>
          ELSE /\ last.ret = 1
               /\ Len(ComponentReads) = 5 + Len(m_scenes)
               /\ \A on \in {"pathManager", "universe", "hierarchy", "renderer",
                             "pluginManager"}:
                     Len(SelectSeq(ComponentReads, LAMBDA c: c.on = on)) = 1
               /\ \A j \in 1..Len(m_scenes):
                     Len(SelectSeq(ComponentReads,
                                   LAMBDA c: c.on = "scene" /\ c.id = m_scenes[j].id)) = 1

\* deserialize() has accepted a stream of the older version BASE on a universe
\* with two scenes or more.
C10_Witness ==
    /\ last.op = "deserialize"
    /\ last.hdr[1] = SERIALIZED_ENGINE_MAGIC
    /\ last.hdr[2] = BASE
    /\ last.ret = 1
    /\ Len(m_scenes) >= 2

----
\* Properties of the order of the stream and of the registry.

\* The receivers of the stream, in the order of the format.
FormatOrder == <<"pathManager", "universe", "hierarchy", "renderer", "pluginManager">>

\* The calls cs hand the stream, through fn, to the path table, the universe,
\* the hierarchy, the renderer, the plugin manager and then to every scene of
\* the registry in registry order, once each.
InFormatOrder(cs, fn) ==
    /\ Len(cs) = Len(FormatOrder) + Len(m_scenes)
    /\ \A i \in 1..Len(cs): cs[i].fn = fn
    /\ \A i \in 1..Len(FormatOrder): cs[i].on = FormatOrder[i]
    /\ \A i \in 1..Len(m_scenes):
          /\ cs[Len(FormatOrder) + i].on = "scene"
          /\ cs[Len(FormatOrder) + i].id = m_scenes[i].id

\* C11: serialize() writes the header, then hands the stream to the path
\* table, the universe, the hierarchy, the renderer, the plugin manager and
\* every scene in registry order, once each; a deserialize() that succeeds
\* reads the header and hands the stream to the same receivers in the same
\* order, once each.
C11_FixedStreamOrder ==
    /\ last.op = "serialize" =>
          /\ calls[1].fn = "write" /\ calls[1].on = "header"
          /\ InFormatOrder(Tail(calls), "serialize")
    /\ (last.op = "deserialize" /\ last.ret = 1) =>
          /\ calls[1].fn = "read" /\ calls[1].on = "header"
          /\ InFormatOrder(Tail(calls), "deserialize")

\* serialize() has written a universe with three scenes.
C11_Witness ==
    /\ last.op = "serialize"
    /\ Len(m_scenes) = 3
    /\ Len(calls) = 9

\* The place of plugin p in the plugin manager's list.
PluginIndex(p) == CHOOSE k \in 1..Len(plugins): plugins[k] = p

\* The scenes the createScene calls of the most recent step returned, in the
\* order of the calls.
ScenesReturned ==
    LET cs == SelectSeq(calls, LAMBDA c: c.fn = "createScene" /\ c.arg # NULL)
    IN  [i \in 1..Len(cs) |-> [id |-> cs[i].arg, plugin |-> cs[i].id]]

\* C14: the registry holds scenes of registered plugins only, at most one for
\* each plugin, in the order of their plugins in the plugin manager; right
\* after createUniverse() it is the scenes the plugins returned, nullptr left
\* out, in the order in which the plugins were asked, every plugin once.
C14_RegistryOrdered ==
    /\ \A i \in 1..Len(m_scenes): \E k \in 1..Len(plugins): plugins[k] = m_scenes[i].plugin
    /\ \A i, j \in 1..Len(m_scenes):
          i < j => PluginIndex(m_scenes[i].plugin) < PluginIndex(m_scenes[j].plugin)
    /\ last.op = "createUniverse" =>
          /\ m_scenes = ScenesReturned
          /\ LET cs == CallsNamed("createScene")
             IN  /\ Len(cs) = Len(plugins)
                 /\ \A k \in 1..Len(plugins): cs[k].id = plugins[k]

\* createUniverse() with three plugins, of which the second returned nullptr.
C14_Witness ==
    /\ last.op = "createUniverse"
    /\ Len(plugins) = 3
    /\ Len(m_scenes) = 2
    /\ m_scenes[1].plugin = 1
    /\ m_scenes[2].plugin = 3

----
\* Properties of the saved stream.

\* The plugins of the scenes of a registry, in registry order.
ScenePlugins(scenes) == [i \in 1..Len(scenes) |-> scenes[i].plugin]

\* C12: the stream serialize() wrote, read by deserialize() into a universe
\* with the same plugins' scenes in the same order, is accepted (deserialize()
\* returns true), and afterwards every component holds what its counterpart
\* held when the stream was written.
C12_RoundTrip ==
    (/\ last.op = "deserialize"
     /\ last.hdr = ReadHeader(blob)
     /\ ScenePlugins(m_scenes) = ScenePlugins(snap.scenes)) =>
        /\ last.ret = 1
        /\ data = snap.data

\* A stream written after the game had gone on, with two scenes, has been
\* read back.
C12_Witness ==
    /\ last.op = "deserialize"
    /\ last.hdr = ReadHeader(blob)
    /\ last.ret = 1
    /\ Len(m_scenes) = 2
    /\ ScenePlugins(m_scenes) = ScenePlugins(snap.scenes)
    /\ data.universe = Content(Kind.universe, 1)
    /\ data.scenes[2] = SceneContent(m_scenes[2], 1)

\* The bytes of the universe, the hierarchy, the renderer, the plugin manager
\* and the scenes, in that order.
ComponentBytes(d) ==
    <<d.universe, d.hierarchy, d.renderer, d.pluginManager>> \o d.scenes

\* C15: the crc serialize() returns is the crc of the bytes written after the
\* path table, that is of the bytes of the universe, the hierarchy, the
\* renderer, the plugin manager and the scenes in that order; the stream is
\* the header, the path table and then these bytes; a serialization that
\* differs from the saved one in the path table only returns the same crc.
C15_CrcWindow ==
    last.op = "serialize" =>
        /\ last.ret = crc32(ComponentBytes(data))
        /\ out = WriteHeader(last.hdr) \o <<data.paths>> \o ComponentBytes(data)
        /\ (blob # <<>> /\ ComponentBytes(data) = ComponentBytes(snap.data)) =>
              last.ret = snap.crc

\* Two serializations with two scenes that differ in the path table only.
C15_Witness ==
    /\ last.op = "serialize"
    /\ blob # <<>>
    /\ Len(m_scenes) = 2
    /\ ComponentBytes(data) = ComponentBytes(snap.data)
    /\ data.paths # snap.data.paths
    /\ last.ret = snap.crc

\* C18: the reserved slot of the header carries no information.  serialize()
\* writes zero into it, never the crc it returns; and deserialize() of a
\* stream returns what it returns, and makes the component reads it makes,
\* for the stream with any other value in the reserved slot.
C18_ReservedCarriesNothing ==
    [][/\ last'.op = "serialize" =>
             /\ last'.hdr[3] = 0
             /\ SubSeq(out', 9, 12) = <<0, 0, 0, 0>>
             /\ last'.ret # 0 => ReadHeader(out')[3] # last'.ret
       /\ last'.op = "deserialize" =>
             \A m_reserved \in Reserved:
                 LET other == WithHeader(blob, <<last'.hdr[1], last'.hdr[2], m_reserved>>)
                 IN  /\ (last'.ret = 1) = (HeaderCheck(ReadHeader(other)) = "ok")
                     /\ \A result \in {DeserializeResult(other)}:
                            /\ last'.ret = result.ret
                            /\ calls' = result.calls
                            /\ data' = result.data]_vars

\* A stream with a good header and a reserved slot that is not zero has been
\* read into a universe with two scenes.
C18_Witness ==
    /\ last.op = "deserialize"
    /\ last.hdr[3] # 0
    /\ last.ret = 1
    /\ Len(m_scenes) = 2
    /\ Len(ComponentReads) = 7
    /\ data = snap.data

----
\* Properties of the engine's creation and destruction, and of the lookup.

\* The calls of the most recent step that tear the renderer down: directly,
\* or as a plugin of the plugin manager.
RendererTeardowns ==
    SelectSeq(calls, LAMBDA c: \/ c.fn = "destroyInstance" /\ c.on = "renderer"
                               \/ c.fn = "destroy" /\ c.on = "plugin" /\ c.id = m_renderer)

\* The most recent step allocated a renderer.
RendererAllocated ==
    \E i \in 1..Len(calls):
        calls[i].fn = "createInstance" /\ calls[i].on = "renderer" /\ calls[i].arg # NULL

\* A step of phase two failed in the most recent step.
PhaseTwoFailed ==
    \E i \in 1..Len(calls):
        \/ calls[i].fn = "create" /\ calls[i].on = "pluginManager" /\ calls[i].arg = NULL
        \/ calls[i].fn = "createInstance" /\ calls[i].on = "renderer" /\ calls[i].arg = NULL
        \/ calls[i].fn = "create" /\ calls[i].on = "renderer" /\ calls[i].arg = 0
        \/ calls[i].fn = "create" /\ calls[i].on = "inputSystem" /\ calls[i].arg = 0

\* C13: Engine::create returns null exactly when a step of phase two (the
\* plugin manager, the renderer instance, the renderer's create, the input
\* system) failed, and then the engine object has been destroyed; a renderer
\* that had been allocated has been torn down exactly once, and none is torn
\* down when none was allocated.  When it returns an engine, the engine is
\* alive and nothing has been torn down.
C13_NoPartialEngine ==
    last.op = "create" =>
        /\ (last.ret = NULL) = PhaseTwoFailed
        /\ last.ret = NULL =>
              /\ engine = "destroyed"
              /\ CallsOn("m_timer") = <<Call("create", "m_timer", 0, NULL, Zero),
                                        Call("destroy", "m_timer", 0, NULL, Zero)>>
              /\ Len(RendererTeardowns) = IF RendererAllocated THEN 1 ELSE 0
        /\ last.ret # NULL =>
              /\ engine = "alive"
              /\ RendererTeardowns = <<>>
              /\ CallsNamed("destroy") = <<>>

\* The input system failed after the renderer had been registered.
C13_Witness ==
    /\ last.op = "create"
    /\ last.ret = NULL
    /\ engine = "destroyed"
    /\ \E i \in 1..Len(calls):
          calls[i].fn = "create" /\ calls[i].on = "inputSystem" /\ calls[i].arg = 0
    /\ Len(RendererTeardowns) = 1

\* The calls of the destructor in the most recent step: from the destruction
\* of the frame timer on.
DestructorCalls ==
    LET start == CHOOSE i \in 1..Len(calls):
                     calls[i].fn = "destroy" /\ calls[i].on = "m_timer"
    IN  SubSeq(calls, start, Len(calls))

\* The receivers of calls cs, in order.
Receivers(cs) == [i \in 1..Len(cs) |-> cs[i].on]

\* C16: the destructor destroys the frame timer, the fps timer, the plugin
\* manager (which tears its plugins down then), the input system, and then,
\* if and only if the engine built the file system itself, the file system,
\* the memory device and the disk device; the engine built them exactly when
\* no file system was handed to Engine::create.
C16_TeardownOrder ==
    /\ last.op = "create" => (m_disk_file_device = NULL) = last.run
    /\ engine = "destroyed" =>
          /\ \E i \in 1..Len(calls): calls[i].fn = "destroy" /\ calls[i].on = "m_timer"
          /\ Receivers(SelectSeq(DestructorCalls, LAMBDA c: c.on # "plugin"))
                = <<"m_timer", "m_fps_timer", "pluginManager", "inputSystem">>
                  \o (IF m_disk_file_device # NULL
                        THEN <<"fileSystem", "memoryFileDevice", "diskFileDevice">>
                        ELSE <<>>)
          /\ \A i \in 1..Len(DestructorCalls):
                DestructorCalls[i].on = "plugin" =>
                    /\ DestructorCalls[i - 1].on \in {"pluginManager", "plugin"}
                    /\ DestructorCalls[i + 1].on \in {"plugin", "inputSystem"}

\* An engine that was handed a file system and holds three plugins has been
\* destroyed.
C16_Witness ==
    /\ engine = "destroyed"
    /\ last.op = "destroy"
    /\ m_disk_file_device = NULL
    /\ Len(CallsOn("plugin")) = 3
    /\ CallsOn("fileSystem") = <<>>

\* C17: getSceneByComponentType(type) returns the first scene of the
\* registry, in registry order, that owns the type, and none exactly when no
\* scene of the registry owns it (so none without a universe); it asks the
\* scenes up to the one it returns and leaves the registry as it was.
C17_FirstOwner ==
    [][last'.op = "getSceneByComponentType" =>
          /\ m_scenes' = m_scenes
          /\ \A i \in 1..Len(calls'): calls'[i].id = m_scenes[i].id
          /\ m_universe = NULL => last'.ret = NULL
          /\ m_scenes = <<>> => last'.ret = NULL /\ calls' = <<>>
          /\ m_scenes # <<>> =>
                LET type == calls'[1].arg
                    owners == {i \in 1..Len(m_scenes): OwnComponentType(m_scenes[i], type)}
                IN  /\ (last'.ret = NULL) = (owners = {})
                    /\ owners = {} => Len(calls') = Len(m_scenes)
                    /\ owners # {} =>
                          \E i \in owners:
                              /\ \A j \in owners: i <= j
                              /\ last'.ret = m_scenes[i].id
                              /\ Len(calls') = i]_vars

\* Of three scenes the second and the third own the type: the second is
\* returned, after the first was asked.
C17_Witness ==
    /\ last.op = "getSceneByComponentType"
    /\ Len(m_scenes) = 3
    /\ Len(calls) = 2
    /\ ~calls[1].owns
    /\ last.ret = m_scenes[2].id
    /\ OwnComponentType(m_scenes[3], calls[1].arg)

\* C19: once the engine is destroyed no scene handed out by a plugin is left
\* undestroyed, and no universe and no hierarchy is left.
C19_NothingLeftBehind ==
    engine = "destroyed" =>
        /\ created = <<>>
        /\ m_universe = NULL
        /\ m_hierarchy = NULL

----
\* Properties of the two timers.

\* C20: a forced-mode update() leaves the frame timer running (the time
\* elapsed on it keeps growing through forced-mode frames) and restarts the
\* fps-sample timer; a live-mode update() takes as dt the time elapsed on the
\* frame timer since it was last ticked, that is since the previous live-mode
\* call or the engine's construction, times the multiplier, and restarts it.
C20_FrameTimerLiveOnly ==
    [][last'.op = "update" =>
          IF last'.forced[1] >= 0
            THEN /\ m_timer' = m_timer
                 /\ m_fps_timer' = 0
                 /\ \A i \in 1..Len(calls'): calls'[i].on # "timer"
            ELSE /\ m_last_time_delta' = RMul(Rat(m_timer, 1), last'.mult)
                 /\ m_timer' = 0
                 /\ Len(SelectSeq(calls', LAMBDA c: c.on = "timer" /\ c.fn = "tick")) = 1]_vars

\* A live-mode call finds two clock quanta on the frame timer and one on the
\* fps-sample timer: a forced-mode call came in between.
C20_Witness ==
    /\ last.op = "update"
    /\ last.forced[1] < 0
    /\ last.mult = One
    /\ m_last_time_delta = Rat(2, 1)
    /\ m_fps_timer = 1
    /\ m_fps_frame = 1

====
